---- MODULE Spec2Model ----
(***************************************************************************)
(* A model of json-api-client (src/src/lib.rs, src/src/error.rs): the      *)
(* ApiClient constructor, the shared request path handle_request /         *)
(* parse_response behind get/post/put/patch/delete, and the OAuth2         *)
(* pass-throughs exchange_code / refresh.                                  *)
(*                                                                         *)
(* Strings that the code interprets are modelled by what the code reads    *)
(* from them: a URL string by its RFC 3986 components, a header token by   *)
(* its bytes, a response body by its text and the JSON value it denotes.   *)
(***************************************************************************)
EXTENDS Integers, Sequences, FiniteSets, TLC

\* Number of calls that may be in flight on the one client.
NumCalls == 2

\* Longest relative path (in segments) fed to the URL resolution.
MaxSegs == 2

Calls == 1..NumCalls

-----------------------------------------------------------------------------
(* Option and Result *)

None == << >>
Some(x) == << x >>
IsSome(o) == o # << >>
Unwrap(o) == o[1]

Ok(v) == [tag |-> "Ok", value |-> v]
Err(k, m) == [tag |-> "Err", kind |-> k, msg |-> m]
Panic(m) == [tag |-> "Panic", msg |-> m]
IsOk(r) == r.tag = "Ok"
IsErr(r) == r.tag = "Err"

\* error.rs: the variants of Error
ErrorKinds == {"ClientError", "ReqwestError", "UrlError", "JsonError", "Oauth2ExecuteError"}

-----------------------------------------------------------------------------
(* URLs.  A URL string is the record of its RFC 3986 components:           *)
(*   scheme ("" when absent), host ("" when there is no authority, "["     *)
(*   for an authority that does not parse), abs (the path starts with      *)
(*   "/"), segs (the path's segments; a trailing "/" is a last segment     *)
(*   "").  A parsed Url is [scheme, host, path, query] with an absolute    *)
(*   path of at least one segment.                                         *)

UrlString(scheme, host, abs, segs) ==
    [scheme |-> scheme, host |-> host, abs |-> abs, segs |-> segs]

Front(s) == SubSeq(s, 1, Len(s) - 1)

\* The path parser's handling of "." and "..": out is the path so far.
RECURSIVE RemoveDotSegments(_, _)
RemoveDotSegments(out, segs) ==
    IF segs = << >> THEN (IF out = << >> THEN << "" >> ELSE out)
    ELSE LET s == Head(segs)
             rest == Tail(segs)
             last == rest = << >>
         IN  CASE s = ".." ->
                    LET popped == IF out = << >> THEN out ELSE Front(out)
                    IN  RemoveDotSegments(IF last THEN Append(popped, "") ELSE popped, rest)
               [] s = "." ->
                    RemoveDotSegments(IF last THEN Append(out, "") ELSE out, rest)
               [] OTHER ->
                    RemoveDotSegments(Append(out, s), rest)

MkUrl(scheme, host, path) ==
    [scheme |-> scheme, host |-> host, path |-> path, query |-> << >>]

\* Url::parse(input): an absolute URL or an error
UrlParse(input) ==
    IF input.scheme = "" THEN Err("UrlError", "RelativeUrlWithoutBase")
    ELSE IF input.host = "" THEN Err("UrlError", "EmptyHost")
    ELSE IF input.host = "[" THEN Err("UrlError", "InvalidIpv6Address")
    ELSE Ok(MkUrl(input.scheme, input.host, RemoveDotSegments(<< >>, input.segs)))

\* Url::join(base, input): the relative resolution of input against base,
\* written as a plain concatenation (the base keeps its last segment).
UrlJoinConcat(base, input) ==
    IF input.scheme # "" THEN UrlParse(input)
    ELSE IF input.host = "[" THEN Err("UrlError", "InvalidIpv6Address")
    ELSE IF input.host # "" THEN
        Ok(MkUrl(base.scheme, input.host, RemoveDotSegments(<< >>, input.segs)))
    ELSE IF input.abs THEN
        Ok(MkUrl(base.scheme, base.host, RemoveDotSegments(<< >>, input.segs)))
    ELSE IF input.segs = << >> THEN Ok(MkUrl(base.scheme, base.host, base.path))
    ELSE Ok(MkUrl(base.scheme, base.host,
                  RemoveDotSegments(SelectSeq(base.path, LAMBDA s : s # ""), input.segs)))

\* Url::join(base, input): the relative resolution of input against base
UrlJoin(base, input) ==
    IF input.scheme # "" THEN UrlParse(input)
    ELSE IF input.host = "[" THEN Err("UrlError", "InvalidIpv6Address")
    ELSE IF input.host # "" THEN
        Ok(MkUrl(base.scheme, input.host, RemoveDotSegments(<< >>, input.segs)))
    ELSE IF input.abs THEN
        Ok(MkUrl(base.scheme, base.host, RemoveDotSegments(<< >>, input.segs)))
    ELSE IF input.segs = << >> THEN Ok(MkUrl(base.scheme, base.host, base.path))
    ELSE Ok(MkUrl(base.scheme, base.host,
                  RemoveDotSegments(Front(base.path), input.segs)))

-----------------------------------------------------------------------------
(* Headers.  A HeaderMap is a function from lower-case header names to     *)
(* header values; a header value is its bytes and its sensitive flag.      *)

EmptyHeaders == [n \in {} |-> 0]
HeaderValue(bytes) == [bytes |-> bytes, sensitive |-> FALSE]
Header(name, bytes) == name :> HeaderValue(bytes)

\* HeaderValue::from_str: every byte is visible ASCII, a space or a tab
HeaderValueFromStr(bytes) ==
    IF \A i \in 1..Len(bytes) :
          (bytes[i] >= 32 /\ bytes[i] # 127) \/ bytes[i] = 9
    THEN Ok(HeaderValue(bytes))
    ELSE Err("InvalidHeaderValue", "failed to parse header value")

\* HeaderMap::insert / replace_headers: entries of new replace those of old
Overlay(new, old) == new @@ old

-----------------------------------------------------------------------------
(* JSON.  A JSON value is [k, b, items]: its kind, its boolean (kind       *)
(* "bool") and its elements (kind "array", elements are booleans).         *)

JBool(b) == [k |-> "bool", b |-> b, items |-> << >>]
JArray(items) == [k |-> "array", b |-> FALSE, items |-> items]
JObject == [k |-> "object", b |-> FALSE, items |-> << >>]

\* serde_json's reading of a text as a JSON value
JsonRead(text) ==
    CASE text = "" -> Err("JsonError", "EOF while parsing a value")
      [] text = "oops" -> Err("JsonError", "expected value")
      [] text = "true" -> Ok(JBool(TRUE))
      [] text = " true\n" -> Ok(JBool(TRUE))
      [] text = "false" -> Ok(JBool(FALSE))
      [] text = "[]" -> Ok(JArray(<< >>))
      [] text = "[true]" -> Ok(JArray(<< TRUE >>))
      [] text = "{}" -> Ok(JObject)
      [] OTHER -> Err("JsonError", "expected value")

\* from_str that accepts any JSON value, whatever the target type.
FromStrAnyJson(T, text) == JsonRead(text)

\* serde_json::from_str::<T>(text) for the target types "bool" and "Vec<bool>"
FromStr(T, text) ==
    LET j == JsonRead(text) IN
    IF IsErr(j) THEN j
    ELSE IF T = "bool" /\ j.value.k = "bool" THEN Ok(j.value)
    ELSE IF T = "Vec<bool>" /\ j.value.k = "array" THEN Ok(j.value)
    ELSE Err("JsonError", "invalid type")

\* serde_json's rendering of a Value as the request body
ToJsonText(v) ==
    CASE v.k = "bool" -> (IF v.b THEN "true" ELSE "false")
      [] v.k = "array" -> (IF v.items = << >> THEN "[]" ELSE "[true]")
      [] OTHER -> "{}"

-----------------------------------------------------------------------------
(* ApiClient::new *)

NoAuth == [kind |-> "NoAuth"]
AuthorizationHeader(token) == [kind |-> "AuthorizationHeader", token |-> token]
OAuth2(authorize_path, token_path, refresh_path, redirect_url, scopes) ==
    [kind |-> "OAuth2", client_id |-> "id", client_secret |-> "secret",
     authorize_path |-> authorize_path, auth_type |-> "BasicAuth",
     token_path |-> token_path, refresh_path |-> refresh_path,
     redirect_url |-> redirect_url, scopes |-> scopes]

\* The OAuth2 arm with the redirect URL unwrapped instead of propagated.
OAuth2ClientNewUnwrap(base_url, c) ==
    LET authorize_url == UrlJoin(base_url, c.authorize_path)
        token_url == UrlJoin(base_url, c.token_path)
        refresh_url == UrlJoin(base_url, c.refresh_path)
        redirect == UrlParse(c.redirect_url)
    IN  IF IsErr(authorize_url) THEN authorize_url
        ELSE IF IsErr(token_url) THEN token_url
        ELSE IF IsErr(refresh_url) THEN refresh_url
        ELSE IF IsErr(redirect) THEN Panic("unwrap on an Err value")
        ELSE Ok([client_id |-> c.client_id, auth_url |-> authorize_url.value,
                 token_url |-> token_url.value, refresh_url |-> refresh_url.value,
                 client_secret |-> c.client_secret, auth_type |-> c.auth_type,
                 redirect_url |-> redirect.value, scopes |-> c.scopes])

\* lib.rs 63-78: the OAuth2 arm of the match in new
OAuth2ClientNew(base_url, c) ==
    LET authorize_url == UrlJoin(base_url, c.authorize_path)
        token_url == UrlJoin(base_url, c.token_path)
        refresh_url == UrlJoin(base_url, c.refresh_path)
        redirect == UrlParse(c.redirect_url)
    IN  IF IsErr(authorize_url) THEN authorize_url
        ELSE IF IsErr(token_url) THEN token_url
        ELSE IF IsErr(refresh_url) THEN refresh_url
        ELSE IF IsErr(redirect) THEN redirect
        ELSE Ok([client_id |-> c.client_id, auth_url |-> authorize_url.value,
                 token_url |-> token_url.value, refresh_url |-> refresh_url.value,
                 client_secret |-> c.client_secret, auth_type |-> c.auth_type,
                 redirect_url |-> redirect.value, scopes |-> c.scopes])

\* The match on auth, with a caller-supplied Authorization default left in place.
ResolveAuthKeepCaller(base_url, auth, headers) ==
    CASE auth.kind = "AuthorizationHeader" ->
           LET auth_value == HeaderValueFromStr(auth.token) IN
           IF IsErr(auth_value) THEN Panic("Invalid API token value")
           ELSE Ok([headers |-> Overlay(headers,
                                        "authorization" :> [auth_value.value EXCEPT !.sensitive = TRUE]),
                    oauth_client |-> None])
      [] auth.kind = "OAuth2" ->
           LET oc == OAuth2ClientNew(base_url, auth) IN
           IF ~IsOk(oc) THEN oc
           ELSE Ok([headers |-> headers, oauth_client |-> Some(oc.value)])
      [] OTHER -> Ok([headers |-> headers, oauth_client |-> None])

\* The match on auth, with the OAuth2 handle built and then dropped.
ResolveAuthDropHandle(base_url, auth, headers) ==
    CASE auth.kind = "AuthorizationHeader" ->
           LET auth_value == HeaderValueFromStr(auth.token) IN
           IF IsErr(auth_value) THEN Panic("Invalid API token value")
           ELSE Ok([headers |-> Overlay("authorization" :> [auth_value.value EXCEPT !.sensitive = TRUE],
                                        headers),
                    oauth_client |-> None])
      [] auth.kind = "OAuth2" ->
           LET oc == OAuth2ClientNew(base_url, auth) IN
           IF ~IsOk(oc) THEN oc
           ELSE Ok([headers |-> headers, oauth_client |-> None])
      [] OTHER -> Ok([headers |-> headers, oauth_client |-> None])

\* lib.rs 55-81: the match on auth: the default headers and the OAuth2 handle
ResolveAuth(base_url, auth, headers) ==
    CASE auth.kind = "AuthorizationHeader" ->
           LET auth_value == HeaderValueFromStr(auth.token) IN
           IF IsErr(auth_value) THEN Panic("Invalid API token value")
           ELSE Ok([headers |-> Overlay("authorization" :> [auth_value.value EXCEPT !.sensitive = TRUE],
                                        headers),
                    oauth_client |-> None])
      [] auth.kind = "OAuth2" ->
           LET oc == OAuth2ClientNew(base_url, auth) IN
           IF ~IsOk(oc) THEN oc
           ELSE Ok([headers |-> headers, oauth_client |-> Some(oc.value)])
      [] OTHER -> Ok([headers |-> headers, oauth_client |-> None])

\* lib.rs 50-90: ApiClient::new; build_ok is whether the transport builds
ApiClientNew(api_url, auth, default_headers, build_ok) ==
    LET base_url == UrlParse(api_url) IN
    IF IsErr(base_url) THEN base_url
    ELSE LET headers == IF IsSome(default_headers) THEN Unwrap(default_headers)
                        ELSE EmptyHeaders
             resolved == ResolveAuth(base_url.value, auth, headers)
         IN  IF ~IsOk(resolved) THEN resolved
             ELSE IF ~build_ok THEN Err("ReqwestError", "builder error")
             ELSE Ok([client |-> [default_headers |-> resolved.value.headers],
                      base_url |-> base_url.value,
                      oauth_client |-> resolved.value.oauth_client])

-----------------------------------------------------------------------------
(* State *)

VARIABLES
    config,       \* None, or Some of the arguments ApiClient::new was called with
    new_result,   \* None, or Some of how ApiClient::new ended: "Ok", "Err", "Panic"
    client,       \* None, or Some of the constructed ApiClient
    calls         \* per call: its position (pc), the operation and its arguments,
                  \* the requests it dispatched, the response and the body text it
                  \* received, the results it returned and the lines it logged

vars == << config, new_result, client, calls >>

IdleCall ==
    [pc |-> "idle", op |-> "", args |-> None, sent |-> << >>, resp |-> None,
     text |-> None, results |-> << >>, log |-> << >>]

Init ==
    /\ config = None
    /\ new_result = None
    /\ client = None
    /\ calls = [c \in Calls |-> IdleCall]

\* lib.rs 50-90: ApiClient::new, called once
New(api_url, auth, default_headers, build_ok) ==
    /\ config = None
    /\ config' = Some([api_url |-> api_url, auth |-> auth,
                       default_headers |-> default_headers, build_ok |-> build_ok])
    /\ LET r == ApiClientNew(api_url, auth, default_headers, build_ok) IN
         /\ new_result' = Some(IF IsOk(r) THEN [tag |-> "Ok"] ELSE r)
         /\ client' = IF IsOk(r) THEN Some(r.value) ELSE None
    /\ UNCHANGED calls

-----------------------------------------------------------------------------
(* The request path *)

\* "application/json"
AppJson == << 97, 112, 112, 108, 105, 99, 97, 116, 105, 111, 110, 47, 106, 115, 111, 110 >>

Log(level, text) == [level |-> level, text |-> text]

\* lib.rs 125-135: the request builder: query, then json body, then headers
BuildRequest(method, url, query, data, headers) ==
    LET with_query == IF IsSome(query) THEN [url EXCEPT !.query = @ \o Unwrap(query)]
                      ELSE url
        with_json == IF IsSome(data) THEN Header("content-type", AppJson)
                     ELSE EmptyHeaders
    IN  [method |-> method,
         url |-> with_query,
         body |-> IF IsSome(data) THEN Some(ToJsonText(Unwrap(data))) ELSE None,
         headers |-> IF IsSome(headers) THEN Overlay(Unwrap(headers), with_json)
                     ELSE with_json]

\* send() with the default headers taking precedence over the request's.
ExecuteDefaultsFirst(self, req) ==
    [req EXCEPT !.headers = Overlay(self.client.default_headers, @)]

\* lib.rs 137: send(): the transport adds the client's default headers for
\* the names the request does not carry
Execute(self, req) ==
    [req EXCEPT !.headers = Overlay(@, self.client.default_headers)]

\* The client as a call leaves it, were the per-request headers kept as defaults.
SelfAfterKeepHeaders(self, headers) ==
    IF IsSome(headers)
    THEN [self EXCEPT !.client.default_headers = Overlay(Unwrap(headers), @)]
    ELSE self

\* lib.rs 113-115: handle_request borrows &self: the client as the call leaves it
SelfAfter(self, headers) == self

\* lib.rs 113-137: handle_request up to its first suspension, send().await
HandleRequest(c, method, path, query, data, headers, T) ==
    /\ IsSome(client)
    /\ calls[c].pc = "idle"
    /\ LET self == Unwrap(client)
           url == UrlJoin(self.base_url, path)
           args == [method |-> method, path |-> path, query |-> query, data |-> data,
                    headers |-> headers, T |-> T]
       IN  /\ calls' = [calls EXCEPT ![c] =
                 IF IsErr(url)
                 THEN [@ EXCEPT !.pc = "done", !.op = "verb", !.args = Some(args),
                                !.results = Append(@, url)]
                 ELSE [@ EXCEPT !.pc = "send", !.op = "verb", !.args = Some(args),
                                !.sent = Append(@, Execute(self,
                                    BuildRequest(method, url.value, query, data, headers)))]]
           /\ client' = Some(SelfAfter(self, headers))
    /\ UNCHANGED << config, new_result >>

\* lib.rs 141-174: the verb bindings
Get(c, path, query, headers, T) == HandleRequest(c, "GET", path, query, None, headers, T)
Post(c, path, data, headers, T) == HandleRequest(c, "POST", path, None, data, headers, T)
Put(c, path, data, headers, T) == HandleRequest(c, "PUT", path, None, data, headers, T)
Patch(c, path, data, headers, T) == HandleRequest(c, "PATCH", path, None, data, headers, T)
Delete(c, path, headers, T) == HandleRequest(c, "DELETE", path, None, None, headers, T)

\* A transport failure answered by sending the request again.
SendFailsRetry(c) ==
    /\ calls[c].pc = "send"
    /\ calls[c].op = "verb"
    /\ Len(calls[c].sent) < 3
    /\ calls' = [calls EXCEPT ![c].sent = Append(@, @[1])]
    /\ UNCHANGED << config, new_result, client >>

\* lib.rs 137: send().await fails: the transport error is returned by `?`
SendFails(c) ==
    /\ calls[c].pc = "send"
    /\ calls[c].op = "verb"
    /\ calls' = [calls EXCEPT ![c].pc = "done",
                              ![c].results = Append(@, Err("ReqwestError", "send"))]
    /\ UNCHANGED << config, new_result, client >>

\* lib.rs 137-138, 96: send().await yields a response (its status line and
\* headers); parse_response suspends in resp.text().await
Respond(c, status) ==
    /\ calls[c].pc = "send"
    /\ calls[c].op = "verb"
    /\ calls' = [calls EXCEPT ![c].pc = "text",
                              ![c].resp = Some([status |-> status])]
    /\ UNCHANGED << config, new_result, client >>

\* lib.rs 96: resp.text().await fails: the transport error is returned by `?`
TextFails(c) ==
    /\ calls[c].pc = "text"
    /\ calls' = [calls EXCEPT ![c].pc = "done",
                              ![c].results = Append(@, Err("ReqwestError", "body"))]
    /\ UNCHANGED << config, new_result, client >>

\* parse_response with the status code inspected before the body is parsed.
ParseTextCheckStatus(T, resp, text) ==
    LET r == FromStr(T, text) IN
    IF resp.status >= 400
    THEN [result |-> Err("ClientError", "status"), log |-> << Log("trace", text) >>]
    ELSE IF IsOk(r)
    THEN [result |-> Ok(r.value),
          log |-> << Log("trace", text), Log("debug", ToJsonText(r.value)) >>]
    ELSE [result |-> Err("JsonError", r.msg),
          log |-> << Log("trace", text), Log("error", text) >>]

\* lib.rs 97-110: parse_response once the body text is read: the result and
\* the lines logged
ParseText(T, resp, text) ==
    LET r == FromStr(T, text) IN
    IF IsOk(r)
    THEN [result |-> Ok(r.value),
          log |-> << Log("trace", text), Log("debug", ToJsonText(r.value)) >>]
    ELSE [result |-> Err("JsonError", r.msg),
          log |-> << Log("trace", text), Log("error", text) >>]

\* lib.rs 96-110: resp.text().await yields the body; the rest of parse_response
ParseResponse(c, body) ==
    /\ calls[c].pc = "text"
    /\ LET p == ParseText(Unwrap(calls[c].args).T, Unwrap(calls[c].resp), body)
       IN  calls' = [calls EXCEPT ![c].pc = "done",
                                  ![c].text = Some(body),
                                  ![c].results = Append(@, p.result),
                                  ![c].log = @ \o p.log]
    /\ UNCHANGED << config, new_result, client >>

-----------------------------------------------------------------------------
(* OAuth2 *)

\* ensure_oauth that hands out a handle whether or not OAuth2 is configured.
EnsureOauthAlways(self) ==
    IF IsSome(self.oauth_client) THEN Ok(Unwrap(self.oauth_client))
    ELSE Ok([token_url |-> self.base_url, refresh_url |-> self.base_url])

\* lib.rs 180-182: ensure_oauth
EnsureOauth(self) ==
    IF IsSome(self.oauth_client) THEN Ok(Unwrap(self.oauth_client))
    ELSE Err("ClientError", "OAuth2 not in use")

\* lib.rs 184-202: exchange_code / refresh up to the execute().await; the
\* grant is posted over the shared transport
OAuthCall(c, grant, secret) ==
    /\ IsSome(client)
    /\ calls[c].pc = "idle"
    /\ LET self == Unwrap(client)
           oauth == EnsureOauth(self)
           args == [grant |-> grant, secret |-> secret]
       IN  calls' = [calls EXCEPT ![c] =
               IF IsErr(oauth)
               THEN [@ EXCEPT !.pc = "done", !.op = grant, !.args = Some(args),
                              !.results = Append(@, oauth)]
               ELSE [@ EXCEPT !.pc = "execute", !.op = grant, !.args = Some(args),
                              !.sent = Append(@, Execute(self,
                                  [method |-> "POST",
                                   url |-> IF grant = "authorization_code"
                                           THEN oauth.value.token_url
                                           ELSE oauth.value.refresh_url,
                                   body |-> Some(grant),
                                   headers |-> EmptyHeaders]))]]
    /\ UNCHANGED << config, new_result, client >>

\* lib.rs 184-192
ExchangeCode(c, code) == OAuthCall(c, "authorization_code", code)

\* lib.rs 194-202
Refresh(c, refresh_token) == OAuthCall(c, "refresh_token", refresh_token)

\* lib.rs 189-191, 199-201: execute().await ends; its error is mapped by Error::from
OAuthExecuted(c, ok) ==
    /\ calls[c].pc = "execute"
    /\ calls' = [calls EXCEPT ![c].pc = "done",
                              ![c].results = Append(@,
                                  IF ok THEN Ok([k |-> "token", b |-> FALSE, items |-> << >>])
                                  ELSE Err("Oauth2ExecuteError", "execute"))]
    /\ UNCHANGED << config, new_result, client >>

-----------------------------------------------------------------------------
(* Inputs *)

BaseSlash == UrlString("https", "api.example.com", TRUE, << "v1", "" >>)
BaseNoSlash == UrlString("https", "api.example.com", TRUE, << "v1" >>)
BaseRelative == UrlString("", "", FALSE, << "v1" >>)
BaseBadHost == UrlString("https", "[", TRUE, << "v1", "" >>)

PathUsers42 == UrlString("", "", FALSE, << "users", "42" >>)
PathBadHost == UrlString("", "[", TRUE, << >>)
PathAuthorize == UrlString("", "", FALSE, << "authorize" >>)
PathToken == UrlString("", "", FALSE, << "token" >>)
PathRefresh == UrlString("", "", FALSE, << "refresh" >>)
RedirectOk == UrlString("https", "app.example.com", TRUE, << "cb" >>)
RedirectRelative == UrlString("", "", TRUE, << "cb" >>)

TokenOk == << 116, 107 >>
TokenTab == << 116, 9, 107 >>
TokenNewline == << 116, 10 >>
TokenDel == << 127 >>

DefaultsFull ==
    Header("authorization", << 99 >>) @@ Header("x-trace", << 100 >>)
        @@ Header("content-type", << 116 >>)
ExtraTrace == Header("x-trace", << 101 >>)
ExtraAuth == Header("authorization", << 101, 118 >>)
ExtraContentType == Header("content-type", << 120 >>)

OAuth2Ok == OAuth2(PathAuthorize, PathToken, PathRefresh, RedirectOk, << "read", "read" >>)

\* The first two callers
Pair == {c \in Calls : c <= 2}

\* The inputs of the general specification
Inputs ==
    [callers |-> Calls,
     api_urls |-> {BaseSlash, BaseRelative, BaseBadHost},
     auths |-> {NoAuth, AuthorizationHeader(TokenOk), AuthorizationHeader(TokenNewline),
                AuthorizationHeader(TokenDel)}
               \cup {OAuth2(a, t, r, u, << "read", "read" >>) :
                        a \in {PathAuthorize, PathBadHost}, t \in {PathToken, PathBadHost},
                        r \in {PathRefresh, PathBadHost}, u \in {RedirectOk, RedirectRelative}},
     defaults |-> {None},
     builds |-> BOOLEAN,
     paths |-> {PathUsers42, PathBadHost},
     queries |-> {None},
     datas |-> {None},
     headers |-> {Some(ExtraTrace)},
     types |-> {"bool"},
     statuses |-> {200},
     bodies |-> {"true", "oops"}]

NextOver(D) ==
    \/ \E u \in D.api_urls, a \in D.auths, h \in D.defaults, b \in D.builds :
          New(u, a, h, b)
    \/ \E c \in D.callers, p \in D.paths, q \in D.queries, h \in D.headers, T \in D.types :
          Get(c, p, q, h, T)
    \/ \E c \in D.callers, p \in D.paths, d \in D.datas, h \in D.headers, T \in D.types :
          Post(c, p, d, h, T)
    \/ \E c \in D.callers, p \in D.paths, d \in D.datas, h \in D.headers, T \in D.types :
          Put(c, p, d, h, T)
    \/ \E c \in D.callers, p \in D.paths, d \in D.datas, h \in D.headers, T \in D.types :
          Patch(c, p, d, h, T)
    \/ \E c \in D.callers, p \in D.paths, h \in D.headers, T \in D.types :
          Delete(c, p, h, T)
    \/ \E c \in Calls : SendFails(c)
    \/ \E c \in Calls, s \in D.statuses : Respond(c, s)
    \/ \E c \in Calls : TextFails(c)
    \/ \E c \in Calls, b \in D.bodies : ParseResponse(c, b)
    \/ \E c \in D.callers : ExchangeCode(c, "code")
    \/ \E c \in D.callers : Refresh(c, "rt")
    \/ \E c \in Calls, ok \in BOOLEAN : OAuthExecuted(c, ok)

\* The inputs of the specification of the headers: two callers, every
\* combination of default and per-request headers, with and without a body
HeaderInputs ==
    [callers |-> Pair,
     api_urls |-> {BaseSlash},
     auths |-> {NoAuth, AuthorizationHeader(TokenOk), AuthorizationHeader(TokenTab), OAuth2Ok},
     defaults |-> {None, Some(DefaultsFull)},
     builds |-> {TRUE},
     paths |-> {PathUsers42},
     queries |-> {None},
     datas |-> {None, Some(JBool(TRUE))},
     headers |-> {None, Some(ExtraTrace), Some(ExtraAuth), Some(ExtraContentType)},
     types |-> {"bool"},
     statuses |-> {200},
     bodies |-> {"true"}]

\* The inputs of the specification of the responses: two callers, every
\* status, body and target type
BodyInputs ==
    [callers |-> Pair,
     api_urls |-> {BaseSlash},
     auths |-> {NoAuth, OAuth2Ok},
     defaults |-> {None},
     builds |-> {TRUE},
     paths |-> {PathUsers42},
     queries |-> {None, Some(<< << "active", "true" >> >>)},
     datas |-> {None},
     headers |-> {None},
     types |-> {"bool", "Vec<bool>"},
     statuses |-> {200, 500},
     bodies |-> {"", "oops", "true", " true\n", "[true]", "{}"}]

\* The relative paths of at most MaxSegs segments
Segs == {"users", "42", ".."}
RelativePaths ==
    {UrlString("", "", FALSE, s) : s \in UNION {[1..n -> Segs] : n \in 1..MaxSegs}}
PathAbsolute == UrlString("", "", TRUE, << "users" >>)
PathOtherHost == UrlString("https", "other.example.com", TRUE, << "x" >>)
BaseRoot == UrlString("https", "api.example.com", FALSE, << >>)

\* The inputs of the specification of the URLs: one caller, every base URL
\* against every path
UrlInputs ==
    [callers |-> {c \in Calls : c <= 1},
     api_urls |-> {BaseSlash, BaseNoSlash, BaseRoot, BaseRelative},
     auths |-> {NoAuth}
               \cup {OAuth2(p, PathToken, PathRefresh, RedirectOk, << >>) : p \in RelativePaths}
               \cup {OAuth2(PathAuthorize, p, PathRefresh, RedirectOk, << >>) : p \in RelativePaths}
               \cup {OAuth2(PathAuthorize, PathToken, p, RedirectOk, << >>) : p \in RelativePaths},
     defaults |-> {None},
     builds |-> {TRUE},
     paths |-> RelativePaths \cup {PathAbsolute, PathOtherHost, PathBadHost},
     queries |-> {None},
     datas |-> {None},
     headers |-> {None},
     types |-> {"bool"},
     statuses |-> {200},
     bodies |-> {"true"}]

Next == NextOver(Inputs)

Spec == Init /\ [][Next]_vars

-----------------------------------------------------------------------------
(* Properties *)

Config == Unwrap(config)
Self == Unwrap(client)
NewResult == Unwrap(new_result)
OAuthOps == {"authorization_code", "refresh_token"}
Result(c) == calls[c].results[1]

\* C1: on a client configured with NoAuth or AuthorizationHeader, every
\* exchange_code or refresh call has returned Error::ClientError("OAuth2 not in
\* use") and dispatched nothing, whatever the other calls are doing.
C1_NoOAuthNoDispatch ==
    \A c \in Calls :
        (/\ IsSome(config)
         /\ Config.auth.kind \in {"NoAuth", "AuthorizationHeader"}
         /\ calls[c].op \in OAuthOps)
        => /\ calls[c].pc = "done"
           /\ calls[c].results = << Err("ClientError", "OAuth2 not in use") >>
           /\ calls[c].sent = << >>

\* C1 witness: a refresh on a NoAuth client has ended while a verb call of the
\* same client is awaiting its round trip.
C1_Witness ==
    /\ IsSome(config)
    /\ Config.auth.kind = "NoAuth"
    /\ \E c, d \in Calls :
          /\ calls[c].op = "refresh_token"
          /\ calls[c].pc = "done"
          /\ calls[d].op = "verb"
          /\ calls[d].pc = "send"

\* C2: a constructed client holds an OAuth2 handle exactly when it was
\* constructed with AuthConfig::OAuth2, and a client exists exactly when new
\* returned Ok.
C2_OAuthIffConfigured ==
    /\ IsSome(client) <=> (IsSome(new_result) /\ NewResult.tag = "Ok")
    /\ IsSome(client) =>
          (IsSome(Self.oauth_client) <=> Config.auth.kind = "OAuth2")

\* C2 witness: an OAuth2 client after a verb call and an OAuth2 call ended.
C2_Witness ==
    /\ IsSome(client)
    /\ IsSome(Self.oauth_client)
    /\ \E c, d \in Calls :
          /\ calls[c].op = "verb" /\ calls[c].pc = "done"
          /\ calls[d].op \in OAuthOps /\ calls[d].pc = "done"

\* Every URL and path of the configuration is valid.
UrlsValid(cfg) ==
    LET base == UrlParse(cfg.api_url) IN
    /\ IsOk(base)
    /\ cfg.auth.kind = "OAuth2" =>
          /\ IsOk(UrlJoin(base.value, cfg.auth.authorize_path))
          /\ IsOk(UrlJoin(base.value, cfg.auth.token_path))
          /\ IsOk(UrlJoin(base.value, cfg.auth.refresh_path))
          /\ IsOk(UrlParse(cfg.auth.redirect_url))

\* The AuthorizationHeader token, if any, is a legal header value.
TokenLegal(cfg) ==
    cfg.auth.kind = "AuthorizationHeader" => IsOk(HeaderValueFromStr(cfg.auth.token))

\* C3 as stated: new succeeds exactly when all URLs and paths are valid, and
\* never panics (taken where the transport builds).
C3_Original ==
    (IsSome(new_result) /\ Config.build_ok) =>
        /\ NewResult.tag = "Ok" <=> UrlsValid(Config)
        /\ NewResult.tag # "Panic"

\* C3 amended: new succeeds exactly when all URLs and paths are valid, the
\* AuthorizationHeader token is a legal header value and the transport builds;
\* any invalid URL or path yields the URL error, never a panic; with valid URLs
\* an illegal token panics; with those valid a transport that does not build
\* yields the transport error.
C3_NewOutcome ==
    IsSome(new_result) =>
        /\ NewResult.tag = "Ok" <=>
              (UrlsValid(Config) /\ TokenLegal(Config) /\ Config.build_ok)
        /\ ~UrlsValid(Config) => (NewResult.tag = "Err" /\ NewResult.kind = "UrlError")
        /\ (UrlsValid(Config) /\ ~TokenLegal(Config)) => NewResult.tag = "Panic"
        /\ (UrlsValid(Config) /\ TokenLegal(Config) /\ ~Config.build_ok) =>
              (NewResult.tag = "Err" /\ NewResult.kind = "ReqwestError")

\* C3 witness: new returned the URL error for an OAuth2 configuration whose
\* only invalid input is the redirect URL.
C3_Witness ==
    /\ IsSome(new_result)
    /\ NewResult.tag = "Err"
    /\ NewResult.kind = "UrlError"
    /\ Config.auth.kind = "OAuth2"
    /\ IsOk(UrlParse(Config.api_url))
    /\ IsOk(UrlJoin(UrlParse(Config.api_url).value, Config.auth.authorize_path))
    /\ IsOk(UrlJoin(UrlParse(Config.api_url).value, Config.auth.token_path))
    /\ IsOk(UrlJoin(UrlParse(Config.api_url).value, Config.auth.refresh_path))
    /\ ~IsOk(UrlParse(Config.auth.redirect_url))

\* C9: a verb call dispatches at most once and returns at most once; it has
\* returned exactly when it is done; what it returns is Ok or one of the URL,
\* transport and decode errors; a path that does not resolve returns the URL
\* error with nothing dispatched, and a transport or decode error comes after
\* exactly one dispatch.
C9_NoRetry ==
    \A c \in Calls :
        calls[c].op = "verb" =>
            /\ Len(calls[c].sent) <= 1
            /\ Len(calls[c].results) <= 1
            /\ calls[c].pc = "done" <=> Len(calls[c].results) = 1
            /\ ~IsOk(UrlJoin(Self.base_url, Unwrap(calls[c].args).path)) =>
                  (/\ calls[c].sent = << >>
                   /\ calls[c].pc = "done"
                   /\ IsErr(Result(c)) /\ Result(c).kind = "UrlError")
            /\ calls[c].pc = "done" =>
                  /\ \/ IsOk(Result(c))
                     \/ IsErr(Result(c)) /\
                           Result(c).kind \in {"UrlError", "ReqwestError", "JsonError"}
                  /\ (IsErr(Result(c)) /\ Result(c).kind = "UrlError") =>
                        calls[c].sent = << >>
                  /\ (IsErr(Result(c)) /\ Result(c).kind \in {"ReqwestError", "JsonError"}) =>
                        Len(calls[c].sent) = 1
                  /\ IsOk(Result(c)) => Len(calls[c].sent) = 1

\* C9 witness: one call ended with the transport error of a failed send,
\* another with the URL error.
C9_Witness ==
    \E c, d \in Calls :
        /\ calls[c].op = "verb" /\ calls[c].pc = "done"
        /\ Result(c) = Err("ReqwestError", "send")
        /\ Len(calls[c].sent) = 1
        /\ calls[d].op = "verb" /\ calls[d].pc = "done"
        /\ IsErr(Result(d)) /\ Result(d).kind = "UrlError"

\* Two verb calls that were given the same arguments and received the same
\* response and body returned the same result.
SameInSameOut ==
    \A c, d \in Calls :
        (/\ calls[c].op = "verb" /\ calls[d].op = "verb"
         /\ calls[c].pc = "done" /\ calls[d].pc = "done"
         /\ IsSome(calls[c].text)
         /\ calls[c].args = calls[d].args
         /\ calls[c].resp = calls[d].resp
         /\ calls[c].text = calls[d].text)
        => calls[c].results = calls[d].results

\* C10: no step of any call changes the constructed client (its base URL, its
\* default headers, its OAuth2 handle), and the result of a call is determined
\* by its own arguments and its own response.
C10_Immutable ==
    /\ [][IsSome(client) => client' = client]_vars
    /\ []SameInSameOut

\* C10 witness: two calls are suspended at once, one awaiting the round trip
\* and one reading the body, and the client is as new built it.
C10_Witness ==
    /\ IsSome(client)
    /\ client = Some(ApiClientNew(Config.api_url, Config.auth, Config.default_headers,
                                  Config.build_ok).value)
    /\ \E c, d \in Calls :
          /\ calls[c].pc = "send" /\ IsSome(Unwrap(calls[c].args).headers)
          /\ calls[d].pc = "text"

\* The verb calls that dispatched a request, and the request
Dispatched(c) == calls[c].op = "verb" /\ calls[c].sent # << >>
Request(c) == calls[c].sent[1]
Args(c) == Unwrap(calls[c].args)
Names(h) == IF IsSome(h) THEN DOMAIN Unwrap(h) ELSE {}

\* C4 as stated: on an AuthorizationHeader client every request of a verb call
\* carries an Authorization header whose value is the configured token.
C4_Original ==
    (IsSome(client) /\ Config.auth.kind = "AuthorizationHeader") =>
        \A c \in Calls :
            Dispatched(c) =>
                /\ "authorization" \in DOMAIN Request(c).headers
                /\ Request(c).headers["authorization"].bytes = Config.auth.token

\* C4 amended: on an AuthorizationHeader client every request of a verb call
\* carries an Authorization header; its value is the configured token (marked
\* sensitive) for every choice of default headers and of extra headers that do
\* not name Authorization, and the extra header's value when they do.
C4_TokenUnlessOverridden ==
    (IsSome(client) /\ Config.auth.kind = "AuthorizationHeader") =>
        \A c \in Calls :
            Dispatched(c) =>
                /\ "authorization" \in DOMAIN Request(c).headers
                /\ "authorization" \notin Names(Args(c).headers) =>
                      Request(c).headers["authorization"] =
                          [bytes |-> Config.auth.token, sensitive |-> TRUE]
                /\ "authorization" \in Names(Args(c).headers) =>
                      Request(c).headers["authorization"] =
                          Unwrap(Args(c).headers)["authorization"]

\* C4 witness: the caller's defaults named Authorization, and a request with
\* an extra header of another name carries the token.
C4_Witness ==
    /\ IsSome(client)
    /\ Config.auth.kind = "AuthorizationHeader"
    /\ "authorization" \in Names(Config.default_headers)
    /\ \E c \in Calls :
          /\ Dispatched(c)
          /\ Args(c).headers = Some(ExtraTrace)
          /\ Request(c).headers["authorization"].bytes = Config.auth.token

\* The default headers new fixed: the caller's, with the token for Authorization
ConstructedDefaults ==
    IF Config.auth.kind = "AuthorizationHeader"
    THEN [n \in Names(Config.default_headers) \cup {"authorization"} |->
            IF n = "authorization"
            THEN [bytes |-> Config.auth.token, sensitive |-> TRUE]
            ELSE Unwrap(Config.default_headers)[n]]
    ELSE [n \in Names(Config.default_headers) |-> Unwrap(Config.default_headers)[n]]

\* C8 as stated: on the request they are passed to, the extra headers override
\* the defaults of the same names and every other default is sent; a request
\* without extra headers carries exactly the default headers; the defaults stay
\* as fixed at construction.
C8_Original ==
    IsSome(client) =>
        /\ Self.client.default_headers = ConstructedDefaults
        /\ \A c \in Calls :
              Dispatched(c) =>
                  LET extra == Args(c).headers
                      sent == Request(c).headers
                  IN  /\ \A n \in Names(extra) :
                            n \in DOMAIN sent /\ sent[n] = Unwrap(extra)[n]
                      /\ \A n \in DOMAIN ConstructedDefaults \ Names(extra) :
                            n \in DOMAIN sent /\ sent[n] = ConstructedDefaults[n]
                      /\ extra = None => sent = ConstructedDefaults

\* C8 amended: as stated, except that a request with a JSON body carries
\* Content-Type: application/json, which stands in for a default Content-Type
\* unless an extra header names Content-Type; the request carries no other
\* header, and the defaults stay as fixed at construction.
C8_ExtraHeadersThisRequestOnly ==
    IsSome(client) =>
        /\ Self.client.default_headers = ConstructedDefaults
        /\ \A c \in Calls :
              Dispatched(c) =>
                  LET extra == Args(c).headers
                      sent == Request(c).headers
                      json == IF IsSome(Args(c).data) THEN {"content-type"} ELSE {}
                  IN  /\ DOMAIN sent = Names(extra) \cup json \cup DOMAIN ConstructedDefaults
                      /\ \A n \in DOMAIN sent :
                            sent[n] = IF n \in Names(extra) THEN Unwrap(extra)[n]
                                      ELSE IF n \in json THEN HeaderValue(AppJson)
                                      ELSE ConstructedDefaults[n]

\* C8 witness: one request went out with an extra header that overrides a
\* default, and a request of another call without extra headers and without a
\* body carries exactly the defaults.
C8_Witness ==
    /\ IsSome(client)
    /\ Config.default_headers = Some(DefaultsFull)
    /\ \E c, d \in Calls :
          /\ Dispatched(c)
          /\ Args(c).headers = Some(ExtraTrace)
          /\ Request(c).headers["x-trace"] = ExtraTrace["x-trace"]
          /\ Request(c).headers["authorization"] = ConstructedDefaults["authorization"]
          /\ Dispatched(d)
          /\ Args(d).headers = None
          /\ Args(d).data = None
          /\ Request(d).headers = ConstructedDefaults

\* The verb calls whose response body was read
BodyRead(c) == calls[c].op = "verb" /\ IsSome(calls[c].text)
Text(c) == Unwrap(calls[c].text)
Status(c) == Unwrap(calls[c].resp).status

\* The bodies that are JSON of the shape of the target type
Decodes(T, text) ==
    \/ T = "bool" /\ text \in {"true", " true\n", "false"}
    \/ T = "Vec<bool>" /\ text \in {"[]", "[true]"}

\* C5: two verb calls with the same target type that read the same body
\* returned the same result, whatever the two status codes; a response with
\* status 500 whose body decodes into T returned Ok.
C5_StatusIgnored ==
    /\ \A c, d \in Calls :
          (/\ BodyRead(c) /\ BodyRead(d)
           /\ Args(c).T = Args(d).T
           /\ Text(c) = Text(d))
          => calls[c].results = calls[d].results
    /\ \A c \in Calls :
          (BodyRead(c) /\ Status(c) = 500 /\ Decodes(Args(c).T, Text(c)))
          => (Len(calls[c].results) = 1 /\ IsOk(Result(c)))

\* C5 witness: the same body came back with status 200 to one call and with
\* status 500 to another, and both returned Ok.
C5_Witness ==
    \E c, d \in Calls :
        /\ BodyRead(c) /\ BodyRead(d)
        /\ Status(c) = 200 /\ Status(d) = 500
        /\ Text(c) = "true" /\ Text(d) = "true"
        /\ Args(c).T = "bool" /\ Args(d).T = "bool"
        /\ IsOk(Result(c)) /\ IsOk(Result(d))

\* C6: a verb call whose body was read has returned, and it returned
\* Error::JsonError exactly when the body does not decode into T (empty, not
\* JSON, or JSON of another shape); exactly then the raw body is the last line
\* logged, at error level; JsonError is returned by no call whose body was
\* not read.
C6_DecodeError ==
    \A c \in Calls :
        /\ BodyRead(c) =>
              /\ calls[c].pc = "done"
              /\ Len(calls[c].results) = 1
              /\ (IsErr(Result(c)) /\ Result(c).kind = "JsonError")
                    <=> ~Decodes(Args(c).T, Text(c))
              /\ IsOk(Result(c)) <=> Decodes(Args(c).T, Text(c))
              /\ (\E i \in 1..Len(calls[c].log) : calls[c].log[i].level = "error")
                    <=> ~Decodes(Args(c).T, Text(c))
              /\ ~Decodes(Args(c).T, Text(c)) =>
                    calls[c].log[Len(calls[c].log)] = Log("error", Text(c))
        /\ (calls[c].op = "verb" /\ ~IsSome(calls[c].text)) =>
              \A i \in 1..Len(calls[c].results) :
                  ~(IsErr(calls[c].results[i]) /\ calls[c].results[i].kind = "JsonError")

\* C6 witness: an empty body, and a body that is JSON of another shape than
\* T, each returned the decode error with the body logged.
C6_Witness ==
    \E c, d \in Calls :
        /\ BodyRead(c) /\ Text(c) = ""
        /\ IsErr(Result(c)) /\ Result(c).kind = "JsonError"
        /\ BodyRead(d) /\ Text(d) = "true" /\ Args(d).T = "Vec<bool>"
        /\ IsErr(Result(d)) /\ Result(d).kind = "JsonError"
        /\ calls[d].log[Len(calls[d].log)] = Log("error", "true")

\* A relative path with no leading slash and no dot segments
PlainRelative(p) ==
    /\ p.scheme = "" /\ p.host = "" /\ ~p.abs /\ p.segs # << >>
    /\ \A i \in 1..Len(p.segs) : p.segs[i] \notin {".", "..", ""}

\* The base URL as parsed
BaseUrl == UrlParse(Config.api_url).value

\* What the claim says a plain relative path resolves to: the base's path
\* with its segments kept when it ends in "/", with its last segment dropped
\* when it does not, followed by the path.
KeepOrReplace(base, p) ==
    IF base.path[Len(base.path)] = ""
    THEN SelectSeq(base.path, LAMBDA x : x # "") \o p.segs
    ELSE SubSeq(base.path, 1, Len(base.path) - 1) \o p.segs

\* RFC 3986 5.2.4 on a merged path: "." is dropped, ".." drops the segment
\* before it, and either one at the end leaves a trailing "/".
RECURSIVE Rfc3986Normal(_, _)
Rfc3986Normal(done, todo) ==
    IF todo = << >> THEN done
    ELSE LET x == Head(todo) IN
         IF x \in {".", ".."}
         THEN LET kept == IF x = ".." /\ done # << >>
                          THEN SubSeq(done, 1, Len(done) - 1) ELSE done
              IN  Rfc3986Normal(IF Len(todo) = 1 THEN kept \o << "" >> ELSE kept, Tail(todo))
         ELSE Rfc3986Normal(done \o << x >>, Tail(todo))

\* RFC 3986 5.2.3: the base path up to its last "/", then the reference
Rfc3986Merge(base, p) == SubSeq(base.path, 1, Len(base.path) - 1) \o p.segs

Resolves(url, base, p) ==
    /\ url.scheme = base.scheme
    /\ url.host = base.host
    /\ (p.scheme = "" /\ p.host = "" /\ ~p.abs) =>
          url.path = Rfc3986Normal(<< >>, Rfc3986Merge(base, p))
    /\ PlainRelative(p) => url.path = KeepOrReplace(base, p)

\* C7: the URL of every request of a verb call is the RFC 3986 resolution of
\* the path against the base URL: for a plain relative path the base's
\* segments followed by the path when the base ends in "/", the base without
\* its last segment followed by the path when it does not; the OAuth2
\* authorize, token and refresh URLs are resolved the same way.
C7_RelativeResolution ==
    IsSome(client) =>
        /\ \A c \in Calls :
              (Dispatched(c) /\ Args(c).path.scheme = "" /\ Args(c).path.host = "")
              => /\ Resolves(Request(c).url, BaseUrl, Args(c).path)
                 /\ (Config.api_url = BaseSlash /\ Args(c).path = PathUsers42) =>
                       Request(c).url.path = << "v1", "users", "42" >>
                 /\ (Config.api_url = BaseNoSlash /\ Args(c).path = PathUsers42) =>
                       Request(c).url.path = << "users", "42" >>
        /\ IsSome(Self.oauth_client) =>
              /\ Resolves(Unwrap(Self.oauth_client).auth_url, BaseUrl, Config.auth.authorize_path)
              /\ Resolves(Unwrap(Self.oauth_client).token_url, BaseUrl, Config.auth.token_path)
              /\ Resolves(Unwrap(Self.oauth_client).refresh_url, BaseUrl, Config.auth.refresh_path)

\* C7 witness: against the base https://api.example.com/v1 a request for
\* users/42 went to /users/42, on an OAuth2 client whose token path users/42
\* resolved to the same place.
C7_Witness ==
    /\ IsSome(client)
    /\ Config.api_url = BaseNoSlash
    /\ IsSome(Self.oauth_client)
    /\ Config.auth.token_path = PathUsers42
    /\ Unwrap(Self.oauth_client).token_url.path = << "users", "42" >>
    /\ \E c \in Calls :
          /\ Dispatched(c)
          /\ Args(c).path = PathUsers42
          /\ Request(c).url.path = << "users", "42" >>

-----------------------------------------------------------------------------
(* Specifications over the other inputs *)

SpecHeaders == Init /\ [][NextOver(HeaderInputs)]_vars
SpecBodies == Init /\ [][NextOver(BodyInputs)]_vars
SpecUrls == Init /\ [][NextOver(UrlInputs)]_vars

====
